---- MODULE Spec2Model ----
(***************************************************************************)
(* Span hierarchy engine of traj-viewer (src/components/traj-viewer.tsx,   *)
(* src/App.tsx): the hierarchy build of processTraceData, the history      *)
(* walk of getAncestorSpans, and the TrajViewer component's polling,       *)
(* merge and expansion state.                                              *)
(*                                                                         *)
(* A span is a record [id, parent_id]; span ids are positive integers and  *)
(* a null / undefined / empty parent_id is 0.  The spans of SpecTime carry *)
(* started_at and ended_at as well, in milliseconds.  A node of the forest *)
(* is a span with its children list, [id, parent_id, children]; traceData  *)
(* is the sequence of root nodes.                                          *)
(***************************************************************************)
EXTENDS Integers, Sequences, FiniteSets, TLC

\* longest span sequence with arbitrary parent_id references in SpecTree
MaxSpans == 4
\* longest span sequence whose spans all follow their parents in SpecTree
MaxTreeSpans == 5
\* longest span sequence a fetch response carries in Spec
MaxPollSpans == 2
\* number of fetchTraceById calls one behaviour of Spec issues
MaxFetches == 3
\* length of the span sequences of which every permutation is built
MaxPermSpans == 3
\* number of lines of an imported file, and of records on one line
MaxLines == 3
MaxItems == 2
\* length of the span sequences that carry span_data
MaxAgentSpans == 4
\* largest duration formatted, in milliseconds
MaxDuration == 2500
\* length of the span sequences that carry timestamps
MaxTimedSpans == 3
\* latest started_at / ended_at of those spans, in milliseconds
MaxTime == 1

\* parent_id of a root span: null, undefined or the empty string
NoParent == 0
\* traceId of a TrajViewer rendered without the route parameter
NoTrace == 0
\* the trace shown by the TrajViewer of Spec
TheTrace == 1
\* the trace of another /trace/:traceId location
OtherTrace == 2
\* selectedSpan before any selection (null)
NoSpan == [id |-> 0]
\* no setInterval callback is live
NoTimer == [traceId |-> 0]
\* no loadTraceFile call has resumed yet
NoReq == [n |-> 0]
\* the optional argument preserveExpandedState: left out, or a Set
None == {}
Some(set) == {set}

VARIABLES
  traceId,        \* useParams().traceId
  traceData,      \* useState: sequence of root nodes
  expandedSpans,  \* useState: set of span ids
  selectedSpan,   \* useState: the selected span, or NoSpan
  isPolling,      \* useState
  error,          \* useState: "none", "invalid" or "failed"
  inflight,       \* loadTraceFile calls awaiting fetchTraceById: the number n
                  \* of the call, its arguments, the expandedSpans its closure
                  \* holds, and (history) whether the user toggled a row
                  \* since the call
  timer,          \* the closure of the live setInterval callback
  nextFetch,      \* number of the next fetchTraceById call
  file,           \* the span sequence of the file in the upload input
  lastOp,         \* history: the handler that ran last
  lastReq,        \* history: the loadTraceFile call that resumed last
  prevExpanded,   \* history: expandedSpans before that handler
  snapIds,        \* history: span ids of the sequence last processed
  prevSnapIds,    \* history: span ids of the sequence processed before it
  userCollapsed,  \* history: ids whose last user toggle collapsed them
  completedAt,    \* history: nextFetch when loadTraceFile first resumed with
                  \* isComplete = true, 0 before
  appliedN,       \* history: the largest number n of a loadTraceFile call
                  \* whose response was handed to processTraceData, 0
                  \* before
  text,           \* the lines of the file App.tsx imports
  parsedSpans,    \* history: the spans array App.tsx built its forest from
  duration,       \* the argument of a formatDuration call
  formatted       \* the string that call returned, as its characters

vars == <<traceId, traceData, expandedSpans, selectedSpan, isPolling, error,
          inflight, timer, nextFetch, file, lastOp, lastReq, prevExpanded,
          snapIds, prevSnapIds, userCollapsed, completedAt, appliedN,
          text, parsedSpans, duration, formatted>>

\* the variables of the import of App.tsx and of formatDuration
pureVars == <<appliedN, text, parsedSpans, duration, formatted>>

\* nothing imported, nothing formatted
PureIdle ==
  /\ appliedN = 0
  /\ text = <<>>
  /\ parsedSpans = <<>>
  /\ duration = 0
  /\ formatted = <<>>

----------------------------------------------------------------------------
(* Inputs *)

\* span sequences of length n with pairwise distinct ids: the i-th span has
\* id i, and its parent_id is null, any id of the sequence (an earlier span,
\* a later span, itself) or the id n+1 that no span carries
SpanSeqs(n) ==
  { [i \in 1..n |-> [id |-> i, parent_id |-> p[i]]] : p \in [1..n -> 0..(n + 1)] }

\* those of them in which every span is a root or follows its parent: the
\* order in which a running trace emits its spans
TreeSeqs(n) ==
  { [i \in 1..n |-> [id |-> i, parent_id |-> p[i]]] :
      p \in { q \in [1..n -> 0..(n - 1)] : \A i \in 1..n : q[i] < i } }

\* the files of SpecTree
IsInput(spans) ==
  \/ \E n \in 0..MaxSpans : spans \in SpanSeqs(n)
  \/ \E n \in 0..MaxTreeSpans : spans \in TreeSeqs(n)

SpanIds(spans) == { spans[i].id : i \in 1..Len(spans) }

----------------------------------------------------------------------------
(* processTraceData: the hierarchy build *)

\* first pass: spanMap.set(span.id, { ...span, children: [] })
InitSpanMap(spans) ==
  [id \in SpanIds(spans) |->
     LET last == CHOOSE i \in 1..Len(spans) :
                   /\ spans[i].id = id
                   /\ \A j \in (i + 1)..Len(spans) : spans[j].id # id
     IN  [f \in DOMAIN spans[last] \cup {"children"} |->
            IF f = "children" THEN <<>> ELSE spans[last][f]]]

\* variant that links in the pass that fills spanMap: a parent is found only
\* if its span has been scanned already
RECURSIVE LinkSpansOnePass(_, _, _, _)
LinkSpansOnePass(spans, i, spanMap, rootSpans) ==
  IF i > Len(spans)
  THEN [spanMap |-> spanMap, rootSpans |-> rootSpans]
  ELSE LET span == spans[i]
       IN  IF span.parent_id = NoParent
           THEN LinkSpansOnePass(spans, i + 1, spanMap,
                                 Append(rootSpans, span.id))
           ELSE IF span.parent_id \in { spans[j].id : j \in 1..i }
                THEN LinkSpansOnePass(spans, i + 1,
                       [spanMap EXCEPT ![span.parent_id].children =
                                           Append(@, span.id)],
                       rootSpans)
                ELSE LinkSpansOnePass(spans, i + 1, spanMap, rootSpans)

\* variant that puts a root in front of rootSpans (unshift)
RECURSIVE LinkSpansRootsInFront(_, _, _, _)
LinkSpansRootsInFront(spans, i, spanMap, rootSpans) ==
  IF i > Len(spans)
  THEN [spanMap |-> spanMap, rootSpans |-> rootSpans]
  ELSE LET span == spans[i]
       IN  IF span.parent_id = NoParent
           THEN LinkSpansRootsInFront(spans, i + 1, spanMap,
                                      <<span.id>> \o rootSpans)
           ELSE IF span.parent_id \in DOMAIN spanMap
                THEN LinkSpansRootsInFront(spans, i + 1,
                       [spanMap EXCEPT ![span.parent_id].children =
                                           Append(@, span.id)],
                       rootSpans)
                ELSE LinkSpansRootsInFront(spans, i + 1, spanMap, rootSpans)

\* variant that puts a child in front of its parent's children (unshift)
RECURSIVE LinkSpansChildrenInFront(_, _, _, _)
LinkSpansChildrenInFront(spans, i, spanMap, rootSpans) ==
  IF i > Len(spans)
  THEN [spanMap |-> spanMap, rootSpans |-> rootSpans]
  ELSE LET span == spans[i]
       IN  IF span.parent_id = NoParent
           THEN LinkSpansChildrenInFront(spans, i + 1, spanMap,
                                         Append(rootSpans, span.id))
           ELSE IF span.parent_id \in DOMAIN spanMap
                THEN LinkSpansChildrenInFront(spans, i + 1,
                       [spanMap EXCEPT ![span.parent_id].children =
                                           <<span.id>> \o @],
                       rootSpans)
                ELSE LinkSpansChildrenInFront(spans, i + 1, spanMap,
                                              rootSpans)

\* variant that pushes every span on rootSpans and links it as well
RECURSIVE LinkSpansAllRoots(_, _, _, _)
LinkSpansAllRoots(spans, i, spanMap, rootSpans) ==
  IF i > Len(spans)
  THEN [spanMap |-> spanMap, rootSpans |-> rootSpans]
  ELSE LET span == spans[i]
       IN  IF span.parent_id \in DOMAIN spanMap
           THEN LinkSpansAllRoots(spans, i + 1,
                  [spanMap EXCEPT ![span.parent_id].children =
                                      Append(@, span.id)],
                  Append(rootSpans, span.id))
           ELSE LinkSpansAllRoots(spans, i + 1, spanMap,
                                  Append(rootSpans, span.id))

\* variant that also pushes on rootSpans a span whose parent has not been
\* scanned yet
RECURSIVE LinkSpansLateParent(_, _, _, _)
LinkSpansLateParent(spans, i, spanMap, rootSpans) ==
  IF i > Len(spans)
  THEN [spanMap |-> spanMap, rootSpans |-> rootSpans]
  ELSE LET span == spans[i]
           late == span.parent_id \notin { spans[j].id : j \in 1..i }
       IN  IF span.parent_id = NoParent
           THEN LinkSpansLateParent(spans, i + 1, spanMap,
                                    Append(rootSpans, span.id))
           ELSE IF span.parent_id \in DOMAIN spanMap
                THEN LinkSpansLateParent(spans, i + 1,
                       [spanMap EXCEPT ![span.parent_id].children =
                                           Append(@, span.id)],
                       IF late THEN Append(rootSpans, span.id)
                       ELSE rootSpans)
                ELSE LinkSpansLateParent(spans, i + 1, spanMap, rootSpans)

\* second pass, from span i on: a span without parent_id is pushed on
\* rootSpans, a span whose parent is in spanMap is pushed on the parent's
\* children, any other span is pushed nowhere
RECURSIVE LinkSpans(_, _, _, _)
LinkSpans(spans, i, spanMap, rootSpans) ==
  IF i > Len(spans)
  THEN [spanMap |-> spanMap, rootSpans |-> rootSpans]
  ELSE LET span == spans[i]
       IN  IF span.parent_id = NoParent
           THEN LinkSpans(spans, i + 1, spanMap, Append(rootSpans, span.id))
           ELSE IF span.parent_id \in DOMAIN spanMap
                THEN LinkSpans(spans, i + 1,
                       [spanMap EXCEPT ![span.parent_id].children =
                                           Append(@, span.id)],
                       rootSpans)
                ELSE LinkSpans(spans, i + 1, spanMap, rootSpans)

\* the object graph below spanMap[id], as a value; path holds the ids from
\* the root down to the node.  An object that is met again below itself is a
\* reference back to an object of the path, and is written without children
RECURSIVE NodeAt(_, _, _)
NodeAt(spanMap, id, path) ==
  [f \in DOMAIN spanMap[id] |->
     IF f = "children"
     THEN IF id \in path
          THEN <<>>
          ELSE [k \in 1..Len(spanMap[id].children) |->
                  NodeAt(spanMap, spanMap[id].children[k], path \cup {id})]
     ELSE spanMap[id][f]]

NodeOf(spanMap, id) == NodeAt(spanMap, id, {})

\* the value handed to setTraceData
BuildHierarchy(spans) ==
  LET linked == LinkSpans(spans, 1, InitSpanMap(spans), <<>>)
  IN  [k \in 1..Len(linked.rootSpans) |->
         NodeOf(linked.spanMap, linked.rootSpans[k])]

\* variant that expands the root spans only
InitialExpandedRoots(spans) ==
  { spans[i].id : i \in { j \in 1..Len(spans) : spans[j].parent_id = NoParent } }

\* new Set(spans.map(span => span.id))
InitialExpanded(spans) == SpanIds(spans)

----------------------------------------------------------------------------
(* getAncestorSpans *)

\* getAllSpansUpTo with the test for the target at the end of the loop body
RECURSIVE UpToLoopLate(_, _, _, _)
UpToLoopLate(targetId, spans, i, result) ==
  IF i > Len(spans)
  THEN result
  ELSE LET currentSpan == spans[i]
           pushed == Append(result, currentSpan)
           children == currentSpan.children
           childResults == UpToLoopLate(targetId, children, 1, <<>>)
           after == IF Len(children) > 0
                    THEN IF Len(childResults) < Len(children)
                         THEN pushed \o childResults
                         ELSE pushed \o children
                    ELSE pushed
       IN  IF Len(children) > 0 /\ Len(childResults) < Len(children)
           THEN after
           ELSE IF currentSpan.id = targetId
                THEN after
                ELSE UpToLoopLate(targetId, spans, i + 1, after)

getAllSpansUpToLate(targetId, spans) == UpToLoopLate(targetId, spans, 1, <<>>)

\* the for loop of getAllSpansUpTo from element i on, result so far given
RECURSIVE UpToLoop(_, _, _, _)
UpToLoop(targetId, spans, i, result) ==
  IF i > Len(spans)
  THEN result
  ELSE LET currentSpan == spans[i]
       IN  IF currentSpan.id = targetId
           THEN result
           ELSE LET pushed == Append(result, currentSpan)
                    children == currentSpan.children
                IN  IF Len(children) > 0
                    THEN LET childResults == UpToLoop(targetId, children, 1, <<>>)
                         IN  IF Len(childResults) < Len(children)
                             THEN pushed \o childResults
                             ELSE UpToLoop(targetId, spans, i + 1,
                                           pushed \o children)
                    ELSE UpToLoop(targetId, spans, i + 1, pushed)

getAllSpansUpTo(targetId, spans) == UpToLoop(targetId, spans, 1, <<>>)

getAncestorSpans(span, allSpans) ==
  IF span = NoSpan THEN <<>> ELSE getAllSpansUpTo(span.id, allSpans)

\* the sequence the History section maps over
History == getAncestorSpans(selectedSpan, traceData)

----------------------------------------------------------------------------
(* Forest vocabulary of the properties *)

\* depth-first pre-order: each node followed by its whole subtree
RECURSIVE Preorder(_)
Preorder(nodes) ==
  IF Len(nodes) = 0
  THEN <<>>
  ELSE <<nodes[1]>> \o Preorder(nodes[1].children) \o Preorder(Tail(nodes))

IdsOf(nodes) == [k \in 1..Len(nodes) |-> nodes[k].id]

Range(seq) == { seq[k] : k \in 1..Len(seq) }

ForestIds == Range(IdsOf(Preorder(traceData)))

\* ids of the nodes strictly below the node n
DescendantIds(n) == Range(IdsOf(Preorder(n.children)))

\* the elements of seq before the first node with id t
RECURSIVE Before(_, _)
Before(seq, t) ==
  IF Len(seq) = 0 \/ seq[1].id = t
  THEN <<>>
  ELSE <<seq[1]>> \o Before(Tail(seq), t)

\* the node with id t of the forest
ForestNode(t) ==
  LET all == Preorder(traceData)
  IN  all[CHOOSE k \in 1..Len(all) : all[k].id = t]

----------------------------------------------------------------------------
(* processTraceData: the expansion set *)

\* the updater of setExpandedSpans reading the Set captured by loadTraceFile
\* in place of the current state
MergeExpandedStale(prev, preserveExpandedState, spans) ==
  preserveExpandedState \cup
    { id \in SpanIds(spans) : id \in preserveExpandedState }

\* the updater of setExpandedSpans adding the spans that are not in prev
MergeExpandedAddNew(prev, preserveExpandedState, spans) ==
  prev \cup { id \in SpanIds(spans) : id \notin prev }

\* the updater handed to setExpandedSpans on a polling update: a copy of
\* prev, to which every span id that prev has is added
MergeExpanded(prev, preserveExpandedState, spans) ==
  prev \cup { id \in SpanIds(spans) : id \in prev }

\* processTraceData(spans, preserveExpandedState)
ProcessTraceData(spans, preserveExpandedState) ==
  /\ traceData' = BuildHierarchy(spans)
  /\ expandedSpans' =
       IF preserveExpandedState # None
       THEN MergeExpanded(expandedSpans,
                          CHOOSE set \in preserveExpandedState : TRUE, spans)
       ELSE InitialExpanded(spans)
  /\ prevSnapIds' = snapIds
  /\ snapIds' = SpanIds(spans)

----------------------------------------------------------------------------
(* Rendering *)

\* the nodes SpanRow renders: every root, and the children of every rendered
\* node whose id is in expandedSpans
RECURSIVE RenderedRows(_, _)
RenderedRows(nodes, expanded) ==
  IF Len(nodes) = 0
  THEN {}
  ELSE {nodes[1]}
         \cup (IF nodes[1].id \in expanded
               THEN RenderedRows(nodes[1].children, expanded)
               ELSE {})
         \cup RenderedRows(Tail(nodes), expanded)

----------------------------------------------------------------------------
(* Timeline layout: getMaxDuration and the percentages of SpanRow *)

\* the values of a JavaScript number that the layout can take: a quotient of
\* two integers, or what a division by zero gives
NaN == [kind |-> "NaN"]
PosInfinity == [kind |-> "Infinity"]
NegInfinity == [kind |-> "-Infinity"]
Finite(num, den) == [kind |-> "finite", num |-> num, den |-> den]

\* (x / maxDuration) * 100 on numbers; a division by zero raises nothing
Percentage(x, maxDuration) ==
  IF maxDuration # 0
  THEN Finite(x * 100, maxDuration)
  ELSE IF x = 0 THEN NaN
       ELSE IF x > 0 THEN PosInfinity ELSE NegInfinity

RECURSIVE LastEnd(_, _, _)
LastEnd(spans, i, lastEnd) ==
  IF i > Len(spans)
  THEN lastEnd
  ELSE LastEnd(spans, i + 1,
               IF spans[i].ended_at > lastEnd THEN spans[i].ended_at
               ELSE lastEnd)

\* getMaxDuration(spans); the component calls it on traceData
getMaxDuration(spans) ==
  IF Len(spans) = 0
  THEN 0
  ELSE LastEnd(spans, 1, spans[1].ended_at) - spans[1].started_at

\* startPercentage and widthPercentage of the SpanRow of span
SpanRowLayout(span, maxDuration) ==
  [startPercentage |->
     Percentage(span.started_at - traceData[1].started_at, maxDuration),
   widthPercentage |->
     Percentage(span.ended_at - span.started_at, maxDuration)]

\* the layout of every rendered row, by span id
Layout ==
  [id \in { n.id : n \in RenderedRows(traceData, expandedSpans) } |->
     SpanRowLayout(
       CHOOSE n \in RenderedRows(traceData, expandedSpans) : n.id = id,
       getMaxDuration(traceData))]

----------------------------------------------------------------------------
(* SpecTree: one file is uploaded and spans are selected *)

InitTree ==
  /\ traceId = NoTrace
  /\ traceData = <<>>
  /\ expandedSpans = {}
  /\ selectedSpan = NoSpan
  /\ isPolling = TRUE
  /\ error = "none"
  /\ inflight = {}
  /\ timer = NoTimer
  /\ nextFetch = 1
  /\ IsInput(file)
  /\ lastOp = "init"
  /\ lastReq = NoReq
  /\ prevExpanded = {}
  /\ snapIds = {}
  /\ prevSnapIds = {}
  /\ userCollapsed = {}
  /\ completedAt = 0
  /\ PureIdle

\* handleFileUpload on a file whose data.spans is the sequence spans
HandleFileUpload(spans) ==
  /\ Len(spans) > 0
  /\ ProcessTraceData(spans, None)
  /\ lastOp' = "upload"
  /\ prevExpanded' = expandedSpans
  /\ userCollapsed' = {}
  /\ UNCHANGED <<traceId, selectedSpan, isPolling, error, inflight, timer,
                 nextFetch, file, lastReq, completedAt>>
  /\ UNCHANGED pureVars

\* handleSpanSelect(span)
HandleSpanSelect(span) ==
  /\ selectedSpan' = span
  /\ lastOp' = "select"
  /\ prevExpanded' = expandedSpans
  /\ UNCHANGED <<traceId, traceData, expandedSpans, isPolling, error, inflight,
                 timer, nextFetch, file, lastReq, snapIds, prevSnapIds,
                 userCollapsed, completedAt>>
  /\ UNCHANGED pureVars

\* the spans getAncestorSpans is asked about: every node of the forest, every
\* span of the file that is not in the forest, and a span of no file
TreeTargets ==
  Range(Preorder(traceData))
    \cup { [id |-> t, parent_id |-> NoParent, children |-> <<>>] :
             t \in (1..(Len(file) + 1)) \ ForestIds }

NextTree ==
  \/ HandleFileUpload(file)
  \/ \E span \in TreeTargets : traceData # <<>> /\ HandleSpanSelect(span)

SpecTree == InitTree /\ [][NextTree]_vars

----------------------------------------------------------------------------
(* Spec: the TrajViewer of one trace, polled while the user toggles rows *)

\* the span sequences a response of fetchTraceById carries: the spans a
\* trace has emitted, in the order of their emission; a later response may
\* carry more spans, other spans or fewer spans than an earlier one
Snapshots == UNION { TreeSeqs(n) : n \in 1..MaxPollSpans }

\* the body of the useEffect, run with the state of the render it follows:
\* loadTraceFile(traceId) starts a fetch and setInterval installs a callback
\* that closes over that render's isPolling and loadTraceFile
RunEffect(renderIsPolling, renderExpanded, pending) ==
  /\ nextFetch <= MaxFetches
  /\ inflight' = pending \cup
       {[n |-> nextFetch, traceId |-> traceId, isPollingUpdate |-> FALSE,
         expandedSpans |-> renderExpanded, toggled |-> FALSE]}
  /\ nextFetch' = nextFetch + 1
  /\ timer' = [traceId |-> traceId, isPolling |-> renderIsPolling,
               expandedSpans |-> renderExpanded]

\* the render that follows a handler: the effect runs again, after its
\* cleanup, when isPolling is not what it was (traceId and navigate stay).
\* The state updates of one handler are applied in one render, and the
\* effect of that render runs before the next timer or user event is handled
Rerender(pending) ==
  IF isPolling' # isPolling
  THEN RunEffect(isPolling', expandedSpans', pending)
  ELSE inflight' = pending /\ UNCHANGED <<timer, nextFetch>>

Init ==
  /\ traceId = TheTrace
  /\ traceData = <<>>
  /\ expandedSpans = {}
  /\ selectedSpan = NoSpan
  /\ isPolling = TRUE
  /\ error = "none"
  /\ inflight = {[n |-> 1, traceId |-> TheTrace, isPollingUpdate |-> FALSE,
                  expandedSpans |-> {}, toggled |-> FALSE]}
  /\ timer = [traceId |-> TheTrace, isPolling |-> TRUE, expandedSpans |-> {}]
  /\ nextFetch = 2
  /\ file = <<>>
  /\ lastOp = "init"
  /\ lastReq = NoReq
  /\ prevExpanded = {}
  /\ snapIds = {}
  /\ prevSnapIds = {}
  /\ userCollapsed = {}
  /\ completedAt = 0
  /\ PureIdle

\* the setInterval callback: if (isPolling) loadTraceFile(traceId, true)
Tick ==
  /\ timer # NoTimer
  /\ timer.isPolling
  /\ nextFetch <= MaxFetches
  /\ inflight' = inflight \cup
       {[n |-> nextFetch, traceId |-> timer.traceId, isPollingUpdate |-> TRUE,
         expandedSpans |-> timer.expandedSpans, toggled |-> FALSE]}
  /\ nextFetch' = nextFetch + 1
  /\ lastOp' = "tick"
  /\ prevExpanded' = expandedSpans
  /\ UNCHANGED <<traceId, traceData, expandedSpans, selectedSpan, isPolling,
                 error, timer, file, lastReq, snapIds, prevSnapIds,
                 userCollapsed, completedAt>>
  /\ UNCHANGED pureVars

\* loadTraceFile resumes with a successful response that carries spans
ResponseSuccess(r, spans, isComplete) ==
  /\ r \in inflight
  /\ isPolling' = IF isComplete THEN FALSE ELSE isPolling
  /\ ProcessTraceData(spans, IF r.isPollingUpdate
                             THEN Some(r.expandedSpans) ELSE None)
  /\ error' = "none"
  /\ Rerender(inflight \ {r})
  /\ lastOp' = IF r.isPollingUpdate THEN "pollMerge" ELSE "load"
  /\ lastReq' = r
  /\ prevExpanded' = expandedSpans
  /\ userCollapsed' = userCollapsed \cap SpanIds(spans)
  /\ completedAt' = IF isComplete /\ completedAt = 0
                    THEN nextFetch ELSE completedAt
  /\ appliedN' = IF r.n > appliedN THEN r.n ELSE appliedN
  /\ UNCHANGED <<traceId, selectedSpan, file>>
  /\ UNCHANGED <<text, parsedSpans, duration, formatted>>

\* loadTraceFile resumes with a response without success or without spans
ResponseInvalid(r) ==
  /\ r \in inflight
  /\ error' = "invalid"
  /\ inflight' = inflight \ {r}
  /\ lastOp' = "invalid"
  /\ lastReq' = r
  /\ prevExpanded' = expandedSpans
  /\ UNCHANGED <<traceId, traceData, expandedSpans, selectedSpan, isPolling,
                 timer, nextFetch, file, snapIds, prevSnapIds, userCollapsed,
                 completedAt>>
  /\ UNCHANGED pureVars

\* variant of the catch block that reports the error and keeps polling
ResponseThrowKeepPolling(r) ==
  /\ r \in inflight
  /\ error' = "failed"
  /\ isPolling' = isPolling
  /\ UNCHANGED <<traceData, expandedSpans>>
  /\ Rerender(inflight \ {r})
  /\ lastOp' = "failed"
  /\ lastReq' = r
  /\ prevExpanded' = expandedSpans
  /\ UNCHANGED <<traceId, selectedSpan, file, snapIds, prevSnapIds,
                 userCollapsed, completedAt>>
  /\ UNCHANGED pureVars

\* fetchTraceById throws and loadTraceFile resumes in its catch block
ResponseThrow(r) ==
  /\ r \in inflight
  /\ error' = "failed"
  /\ isPolling' = IF r.isPollingUpdate THEN FALSE ELSE isPolling
  /\ UNCHANGED <<traceData, expandedSpans>>
  /\ Rerender(inflight \ {r})
  /\ lastOp' = "failed"
  /\ lastReq' = r
  /\ prevExpanded' = expandedSpans
  /\ UNCHANGED <<traceId, selectedSpan, file, snapIds, prevSnapIds,
                 userCollapsed, completedAt>>
  /\ UNCHANGED pureVars

\* the ids of the rendered rows that show the toggle button
ToggleButtons ==
  { n.id : n \in { m \in RenderedRows(traceData, expandedSpans) :
                     Len(m.children) > 0 } }

\* variant of the updater that only ever adds the id
toggleSpanAddOnly(prev, spanId) == prev \cup {spanId}

\* the updater toggleSpan hands to setExpandedSpans: a copy of prev from
\* which spanId is deleted when it is there, and to which it is added when not
toggleSpan(prev, spanId) ==
  IF spanId \in prev THEN prev \ {spanId} ELSE prev \cup {spanId}

\* toggleSpan(spanId, e)
ToggleSpan(spanId) ==
  /\ expandedSpans' = toggleSpan(expandedSpans, spanId)
  /\ userCollapsed' = IF spanId \in expandedSpans
                      THEN userCollapsed \cup {spanId}
                      ELSE userCollapsed \ {spanId}
  /\ inflight' = { [r EXCEPT !.toggled = TRUE] : r \in inflight }
  /\ lastOp' = "toggle"
  /\ prevExpanded' = expandedSpans
  /\ UNCHANGED <<traceId, traceData, selectedSpan, isPolling, error, timer,
                 nextFetch, file, lastReq, snapIds, prevSnapIds, completedAt>>
  /\ UNCHANGED pureVars

Next ==
  \/ Tick
  \/ \E r \in inflight, spans \in Snapshots, isComplete \in BOOLEAN :
       ResponseSuccess(r, spans, isComplete)
  \/ \E r \in inflight : ResponseInvalid(r)
  \/ \E r \in inflight : ResponseThrow(r)
  \/ \E spanId \in ToggleButtons : ToggleSpan(spanId)

Spec == Init /\ [][Next]_vars

----------------------------------------------------------------------------
(* SpecNav: the TrajViewer is polled while the location changes from one   *)
(* /trace/:traceId to another; the Route keeps the component and its state *)

\* variant that restarts polling for the new trace
NavigateRestartPolling(newTraceId) ==
  /\ newTraceId # traceId
  /\ nextFetch <= MaxFetches
  /\ traceId' = newTraceId
  /\ isPolling' = TRUE
  /\ inflight' = inflight \cup
       {[n |-> nextFetch, traceId |-> newTraceId, isPollingUpdate |-> FALSE,
         expandedSpans |-> expandedSpans, toggled |-> FALSE]}
  /\ nextFetch' = nextFetch + 1
  /\ timer' = [traceId |-> newTraceId, isPolling |-> TRUE,
               expandedSpans |-> expandedSpans]
  /\ lastOp' = "navigate"
  /\ prevExpanded' = expandedSpans
  /\ UNCHANGED <<traceData, expandedSpans, selectedSpan, error, file,
                 lastReq, snapIds, prevSnapIds, userCollapsed, completedAt>>
  /\ UNCHANGED pureVars

\* useParams gives another traceId: the effect is cleaned up (clearInterval)
\* and runs again with the new traceId; no state is reset
Navigate(newTraceId) ==
  /\ newTraceId # traceId
  /\ nextFetch <= MaxFetches
  /\ traceId' = newTraceId
  /\ inflight' = inflight \cup
       {[n |-> nextFetch, traceId |-> newTraceId, isPollingUpdate |-> FALSE,
         expandedSpans |-> expandedSpans, toggled |-> FALSE]}
  /\ nextFetch' = nextFetch + 1
  /\ timer' = [traceId |-> newTraceId, isPolling |-> isPolling,
               expandedSpans |-> expandedSpans]
  /\ lastOp' = "navigate"
  /\ prevExpanded' = expandedSpans
  /\ UNCHANGED <<traceData, expandedSpans, selectedSpan, isPolling, error,
                 file, lastReq, snapIds, prevSnapIds, userCollapsed,
                 completedAt>>
  /\ UNCHANGED pureVars

NextNav ==
  \/ Tick
  \/ \E r \in inflight, spans \in Snapshots, isComplete \in BOOLEAN :
       ResponseSuccess(r, spans, isComplete)
  \/ \E r \in inflight : ResponseInvalid(r)
  \/ \E r \in inflight : ResponseThrow(r)
  \/ \E newTraceId \in {TheTrace, OtherTrace} : Navigate(newTraceId)

SpecNav == Init /\ [][NextNav]_vars

----------------------------------------------------------------------------
(* SpecTime: a file of spans with timestamps is uploaded and rows are      *)
(* toggled                                                                 *)

\* started_at and ended_at of a span, in milliseconds, ended_at not before
\* started_at
Intervals ==
  { w \in (0..MaxTime) \X (0..MaxTime) : w[1] <= w[2] }

TimedSeqs(n) ==
  { [i \in 1..n |-> [id |-> i, parent_id |-> t[i].parent_id,
                     started_at |-> w[i][1], ended_at |-> w[i][2]]] :
      t \in TreeSeqs(n), w \in [1..n -> Intervals] }

InitTime ==
  /\ traceId = NoTrace
  /\ traceData = <<>>
  /\ expandedSpans = {}
  /\ selectedSpan = NoSpan
  /\ isPolling = TRUE
  /\ error = "none"
  /\ inflight = {}
  /\ timer = NoTimer
  /\ nextFetch = 1
  /\ \E n \in 1..MaxTimedSpans : file \in TimedSeqs(n)
  /\ lastOp = "init"
  /\ lastReq = NoReq
  /\ prevExpanded = {}
  /\ snapIds = {}
  /\ prevSnapIds = {}
  /\ userCollapsed = {}
  /\ completedAt = 0
  /\ PureIdle

NextTime ==
  \/ HandleFileUpload(file)
  \/ \E spanId \in ToggleButtons : ToggleSpan(spanId)

SpecTime == InitTime /\ [][NextTime]_vars

----------------------------------------------------------------------------
(* SpecRows: a file is loaded, then rows are selected and toggled *)

MaxRowSpans == 3

InitRows ==
  /\ traceId = NoTrace
  /\ traceData = <<>>
  /\ expandedSpans = {}
  /\ selectedSpan = NoSpan
  /\ isPolling = TRUE
  /\ error = "none"
  /\ inflight = {}
  /\ timer = NoTimer
  /\ nextFetch = 1
  /\ \E n \in 1..MaxRowSpans : file \in SpanSeqs(n)
  /\ lastOp = "init"
  /\ lastReq = NoReq
  /\ prevExpanded = {}
  /\ snapIds = {}
  /\ prevSnapIds = {}
  /\ userCollapsed = {}
  /\ completedAt = 0
  /\ PureIdle

\* the rows that can be clicked are the rendered ones
NextRows ==
  \/ HandleFileUpload(file)
  \/ \E span \in RenderedRows(traceData, expandedSpans) : HandleSpanSelect(span)
  \/ \E spanId \in ToggleButtons : ToggleSpan(spanId)

SpecRows == InitRows /\ [][NextRows]_vars

----------------------------------------------------------------------------
(* SpecImport: App.tsx imports a file of lines, one JSON document a line *)

\* the object tag of a record of a line
ObjectTags == {"trace.span", "trace"}

\* what a line holds: text that is no JSON, or a document whose data array
\* holds records with these tags
LineChoices ==
  {<<"no json">>} \cup UNION { [1..k -> ObjectTags] : k \in 0..MaxItems }

\* line l of a file: the k-th record of line l has the id
\* (l - 1) * MaxItems + k, the first record of a line has no parent_id and
\* every other one names the record before it
LineOf(l, choice) ==
  IF choice = <<"no json">>
  THEN [json |-> FALSE]
  ELSE [json |-> TRUE,
        data |-> [k \in 1..Len(choice) |->
                    [object |-> choice[k],
                     id |-> (l - 1) * MaxItems + k,
                     parent_id |-> IF k = 1 THEN NoParent
                                   ELSE (l - 1) * MaxItems + k - 1]]]

Texts(n) ==
  { [l \in 1..n |-> LineOf(l, c[l])] : c \in [1..n -> LineChoices] }

\* JSON.parse(line): throws, or returns the document
JSONParse(line) ==
  IF line.json
  THEN [ok |-> TRUE, value |-> [data |-> line.data]]
  ELSE [ok |-> FALSE]

\* the spans a document adds: the items with item.object === 'trace.span'
SpansOf(data) ==
  SelectSeq(data, LAMBDA item : item.object = "trace.span")

\* variant with one try block around the loop: the first line that throws
\* ends the loop
RECURSIVE ParseLinesAbort(_, _, _)
ParseLinesAbort(lines, i, spans) ==
  IF i > Len(lines)
  THEN spans
  ELSE LET parsed == JSONParse(lines[i])
       IN  IF parsed.ok
           THEN ParseLinesAbort(lines, i + 1,
                                spans \o SpansOf(parsed.value.data))
           ELSE spans

\* lines.forEach with its try / catch, from line i on
RECURSIVE ParseLines(_, _, _)
ParseLines(lines, i, spans) ==
  IF i > Len(lines)
  THEN spans
  ELSE LET parsed == JSONParse(lines[i])
       IN  IF parsed.ok
           THEN ParseLines(lines, i + 1, spans \o SpansOf(parsed.value.data))
           ELSE ParseLines(lines, i + 1, spans)

InitImport ==
  /\ traceId = NoTrace
  /\ traceData = <<>>
  /\ expandedSpans = {}
  /\ selectedSpan = NoSpan
  /\ isPolling = TRUE
  /\ error = "none"
  /\ inflight = {}
  /\ timer = NoTimer
  /\ nextFetch = 1
  /\ file = <<>>
  /\ lastOp = "init"
  /\ lastReq = NoReq
  /\ prevExpanded = {}
  /\ snapIds = {}
  /\ prevSnapIds = {}
  /\ userCollapsed = {}
  /\ completedAt = 0
  /\ appliedN = 0
  /\ \E n \in 1..MaxLines : text \in Texts(n)
  /\ parsedSpans = <<>>
  /\ duration = 0
  /\ formatted = <<>>

\* processTraceData(text) of App.tsx
ProcessTraceText ==
  LET spans == ParseLines(text, 1, <<>>)
  IN  /\ traceData' = BuildHierarchy(spans)
      /\ expandedSpans' = InitialExpanded(spans)
      /\ parsedSpans' = spans
      /\ lastOp' = "import"
      /\ UNCHANGED <<traceId, selectedSpan, isPolling, error, inflight, timer,
                     nextFetch, file, lastReq, prevExpanded, snapIds,
                     prevSnapIds, userCollapsed, completedAt, appliedN,
                     text, duration, formatted>>

NextImport == ProcessTraceText

SpecImport == InitImport /\ [][NextImport]_vars

----------------------------------------------------------------------------
(* SpecAgents: a file of agent and handoff spans is uploaded and spans are *)
(* selected; the History section flags the new agents                      *)

\* span_data of a span: a handoff, or an agent without name (written "")
\* or with one of two names
SpanData ==
  { [type |-> "handoff", name |-> ""] }
    \cup { [type |-> "agent", name |-> nm] : nm \in {"", "A", "B"} }

\* span sequences in which every span is a root, or every span but the
\* first is the child of the span before it
AgentSeqs(n) ==
  { [i \in 1..n |-> [id |-> i,
                     parent_id |-> IF chain /\ i > 1 THEN i - 1 ELSE NoParent,
                     span_data |-> sd[i]]] :
      chain \in BOOLEAN, sd \in [1..n -> SpanData] }

\* span.span_data.name || span.span_data.type
NameOrType(span) ==
  IF span.span_data.name # "" THEN span.span_data.name
  ELSE span.span_data.type

\* seenAgentsInHistory of the entry index: the agents of spans.slice(0, index)
seenAgentsInHistory(spans, index) ==
  { NameOrType(spans[j]) :
      j \in { k \in 1..(index - 1) : spans[k].span_data.type = "agent" } }

\* variant that does not look at the agents seen before
isNewAgentAfterEveryHandoff(spans, index) ==
  /\ spans[index].span_data.type = "agent"
  /\ index > 1
  /\ spans[index - 1].span_data.type = "handoff"

\* isNewAgent of the entry index (from 1) of the history spans
isNewAgent(spans, index) ==
  /\ spans[index].span_data.type = "agent"
  /\ NameOrType(spans[index]) \notin seenAgentsInHistory(spans, index)
  /\ index > 1
  /\ spans[index - 1].span_data.type = "handoff"

InitAgents ==
  /\ traceId = NoTrace
  /\ traceData = <<>>
  /\ expandedSpans = {}
  /\ selectedSpan = NoSpan
  /\ isPolling = TRUE
  /\ error = "none"
  /\ inflight = {}
  /\ timer = NoTimer
  /\ nextFetch = 1
  /\ \E n \in 1..MaxAgentSpans : file \in AgentSeqs(n)
  /\ lastOp = "init"
  /\ lastReq = NoReq
  /\ prevExpanded = {}
  /\ snapIds = {}
  /\ prevSnapIds = {}
  /\ userCollapsed = {}
  /\ completedAt = 0
  /\ PureIdle

\* the spans the user can select: the nodes of the forest, and a span that
\* is not in it
AgentTargets ==
  Range(Preorder(traceData))
    \cup { [id |-> Len(file) + 1, parent_id |-> NoParent, children |-> <<>>,
            span_data |-> [type |-> "agent", name |-> ""]] }

NextAgents ==
  \/ HandleFileUpload(file)
  \/ \E span \in AgentTargets : traceData # <<>> /\ HandleSpanSelect(span)

SpecAgents == InitAgents /\ [][NextAgents]_vars

----------------------------------------------------------------------------
(* SpecFormat: formatDuration is called on a number of milliseconds *)

\* the decimal digits of the natural number n, as characters
DigitChar(k) == <<"0", "1", "2", "3", "4", "5", "6", "7", "8", "9">>[k + 1]

RECURSIVE Digits(_)
Digits(n) ==
  IF n < 10 THEN <<DigitChar(n)>>
  ELSE Append(Digits(n \div 10), DigitChar(n % 10))

RECURSIVE BitLength(_)
BitLength(n) == IF n = 0 THEN 0 ELSE 1 + BitLength(n \div 2)

\* the remainder, in thousandths, that is left of r / 1000 after k binary
\* places
RECURSIVE RemainderAfter(_, _)
RemainderAfter(r, k) ==
  IF k = 0 THEN r ELSE RemainderAfter((2 * r) % 1000, k - 1)

\* duration / 1000 in double precision, for duration >= 1000: the sign of
\* the difference between the double (53 significant bits, rounded to
\* nearest) and the quotient
QuotientError(d) ==
  LET rest == RemainderAfter(d % 1000, 53 - BitLength(d \div 1000))
  IN  IF rest = 0 THEN 0
      ELSE IF 2 * rest > 1000 THEN 1 ELSE -1

\* (duration / 1000).toFixed(2): the integer n with n / 100 nearest to the
\* double, the larger n if two are equally near, written with two decimals
SecondsToFixed2(d) ==
  LET n == IF d % 10 = 5
           THEN IF QuotientError(d) < 0 THEN d \div 10 ELSE d \div 10 + 1
           ELSE (d + 5) \div 10
  IN  Digits(n \div 100) \o <<".">> \o
        <<DigitChar((n \div 10) % 10), DigitChar(n % 10)>>

\* variant that prints the seconds with toFixed(1)
formatDurationOneDecimal(d) ==
  IF d = 0
  THEN <<"0", " ", "m", "s">>
  ELSE IF d >= 1000
       THEN Digits(d \div 1000) \o <<".">>
              \o <<DigitChar(((d + 50) \div 100) % 10)>> \o <<" ", "s">>
       ELSE Digits(d) \o <<" ", "m", "s">>

\* formatDuration(duration) for an integer duration >= 0; Math.round of an
\* integer is that integer
formatDuration(d) ==
  IF d = 0
  THEN <<"0", " ", "m", "s">>
  ELSE IF d >= 1000
       THEN SecondsToFixed2(d) \o <<" ", "s">>
       ELSE Digits(d) \o <<" ", "m", "s">>

InitFormat ==
  /\ traceId = NoTrace
  /\ traceData = <<>>
  /\ expandedSpans = {}
  /\ selectedSpan = NoSpan
  /\ isPolling = TRUE
  /\ error = "none"
  /\ inflight = {}
  /\ timer = NoTimer
  /\ nextFetch = 1
  /\ file = <<>>
  /\ lastOp = "init"
  /\ lastReq = NoReq
  /\ prevExpanded = {}
  /\ snapIds = {}
  /\ prevSnapIds = {}
  /\ userCollapsed = {}
  /\ completedAt = 0
  /\ appliedN = 0
  /\ text = <<>>
  /\ parsedSpans = <<>>
  /\ duration \in 0..MaxDuration
  /\ formatted = <<>>

\* a SpanRow renders {formatDuration(duration)}
FormatDuration ==
  /\ formatted' = formatDuration(duration)
  /\ lastOp' = "format"
  /\ UNCHANGED <<traceId, traceData, expandedSpans, selectedSpan, isPolling,
                 error, inflight, timer, nextFetch, file, lastReq,
                 prevExpanded, snapIds, prevSnapIds, userCollapsed,
                 completedAt, appliedN, text, parsedSpans, duration>>

NextFormat == FormatDuration

SpecFormat == InitFormat /\ [][NextFormat]_vars

----------------------------------------------------------------------------
(* Properties of the hierarchy build and of getAncestorSpans (SpecTree) *)

\* the file has been processed: traceData is the forest built from it
Built == snapIds # {} /\ snapIds = SpanIds(file)

\* the selected span is a node of the forest
TargetPresent == selectedSpan # NoSpan /\ selectedSpan.id \in ForestIds

\* the span i of the file names a parent that no span of the file carries
IsOrphan(i) ==
  file[i].parent_id # NoParent /\ file[i].parent_id \notin SpanIds(file)

\* C1: the forest built from a sequence of spans with pairwise distinct ids
\* has exactly as many nodes, over all roots and their descendants, as the
\* sequence has spans, and every span id of the sequence occurs in it
\* exactly once.
C1_ForestHoldsEverySpanOnce ==
  Built =>
    /\ Len(Preorder(traceData)) = Len(file)
    /\ \A id \in SpanIds(file) :
         Cardinality({ k \in 1..Len(Preorder(traceData)) :
                         Preorder(traceData)[k].id = id }) = 1

\* C2: every span whose parent_id is non-empty and is the id of no span of
\* the input is a root of the forest after the build.
C2_OrphanIsRoot ==
  Built =>
    \A i \in 1..Len(file) :
      IsOrphan(i) => \E k \in 1..Len(traceData) : traceData[k].id = file[i].id

\* C3: for a target in the forest, getAncestorSpans returns exactly the
\* spans that the depth-first pre-order traversal of the forest visits
\* strictly before the target, in that order.
C3_HistoryIsPreorderPrefix ==
  (Built /\ TargetPresent) =>
    History = Before(Preorder(traceData), selectedSpan.id)

\* C4: for a target in the forest, the sequence getAncestorSpans returns
\* never contains the target itself.
C4_HistoryExcludesTarget ==
  (Built /\ TargetPresent) => selectedSpan.id \notin Range(IdsOf(History))

\* C5: for a target in the forest, the sequence getAncestorSpans returns
\* contains no descendant of the target.
C5_HistoryExcludesDescendants ==
  (Built /\ TargetPresent) =>
    Range(IdsOf(History)) \cap DescendantIds(ForestNode(selectedSpan.id)) = {}

\* C5 witness: the target has a child and follows a sibling that has a child
\* of its own, the case in which the walk does not notice that it found the
\* target
C5_Witness ==
  /\ Built /\ TargetPresent
  /\ DescendantIds(ForestNode(selectedSpan.id)) # {}
  /\ selectedSpan.id \in Range(IdsOf(History))
  /\ Len(History) >= 3

\* C6: for a target that is not in the forest, getAncestorSpans returns the
\* full depth-first pre-order traversal of the forest, every node of every
\* depth exactly once.
C6_AbsentTargetGivesFullPreorder ==
  (Built /\ selectedSpan # NoSpan /\ ~TargetPresent) =>
    History = Preorder(traceData)

----------------------------------------------------------------------------
(* Properties of the polling merge and of the expansion set (Spec) *)

\* the handler that ran last applied the response of a polling update
PollingMerge == lastOp = "pollMerge"

\* C7: over any sequence of polling updates of the trace, the update that
\* carries isComplete = true and the steps after it included, a node that
\* the user collapsed and that is still among the spans is not expanded
\* again by anything but a user toggle.
C7_UserCollapsedStaysCollapsed ==
  \A id \in userCollapsed : id \notin expandedSpans

\* C8: a polling merge leaves the expansion membership of every span id
\* that is in both the previous and the new span sequence as it was
\* immediately before the merge, whatever the user toggled since the poll
\* was issued.
C8_PollingMergeKeepsMembership ==
  PollingMerge =>
    \A id \in prevSnapIds \cap snapIds :
      (id \in expandedSpans) <=> (id \in prevExpanded)

\* C8 witness: a polling merge that follows a user toggle made while the
\* poll was in flight, over a span that is in both sequences and that the
\* user collapsed; the Set the merging loadTraceFile holds in its closure
\* differs from the expansion set the merge starts from
C8_Witness ==
  /\ PollingMerge
  /\ lastReq.toggled
  /\ \E id \in prevSnapIds \cap snapIds :
       /\ id \in userCollapsed
       /\ id \notin prevExpanded
       /\ id \notin expandedSpans
  /\ lastReq.expandedSpans # prevExpanded

\* C9: after a polling merge the expansion set holds no id that is absent
\* from the new span sequence: it is the previous expansion set intersected
\* with the ids of the new sequence.
C9_PollingMergeDropsAbsentIds ==
  PollingMerge =>
    /\ expandedSpans \subseteq snapIds
    /\ expandedSpans = prevExpanded \cap snapIds

----------------------------------------------------------------------------
(* Properties of the polling loop (Spec) *)

\* the interval callback of the current effect run would call loadTraceFile
TimerPolls == timer # NoTimer /\ timer.isPolling

\* C11: once a response with isComplete = true has been processed, no
\* further fetch of the trace is issued, by a timer tick or by any other
\* path.
C11_NoFetchAfterComplete ==
  completedAt # 0 => nextFetch = completedAt

\* C12: at most one fetch of the polling loop is outstanding: a timer tick
\* issues no fetchTraceById call while an earlier loadTraceFile call has not
\* completed.
C12_TickIssuesNoOverlappingFetch ==
  lastOp = "tick" => Cardinality(inflight) <= 1

\* C13: after polling has been stopped (isPolling false), the response of a
\* poll that was still in flight changes neither the forest nor the
\* expansion set.
C13_StoppedPollChangesNothing ==
  [][(~isPolling /\ lastOp' = "pollMerge")
       => (traceData' = traceData /\ expandedSpans' = expandedSpans)]_vars

\* C14: when the fetch of a polling update throws, the forest and the
\* expansion set stay exactly as they were, an error is reported, and
\* isPolling is false, so that no later timer tick issues a polling fetch.
C14_FailedPollStopsPolling ==
  /\ [][(lastOp' = "failed" /\ lastReq'.isPollingUpdate)
          => /\ traceData' = traceData
             /\ expandedSpans' = expandedSpans
             /\ error' = "failed"
             /\ ~isPolling']_vars
  /\ [](~isPolling => ~TimerPolls)

\* C14 witness: the catch block of a polling update has run while a forest
\* was shown and rows were expanded
C14_Witness ==
  /\ lastOp = "failed"
  /\ lastReq.isPollingUpdate
  /\ traceData # <<>>
  /\ expandedSpans # {}
  /\ error = "failed"
  /\ ~isPolling

----------------------------------------------------------------------------
(* Properties of the timeline layout (SpecTime) *)

\* every span of the forest starts and ends at one and the same instant
OneInstant ==
  \A m, n \in Range(Preorder(traceData)) :
    /\ m.started_at = n.started_at
    /\ m.ended_at = n.started_at

\* C15: for a forest whose window duration is 0 (every span starts and ends
\* at one instant), the layout gives startPercentage = 0 and
\* widthPercentage = 0 for every row.
C15_ZeroWindowGivesZeroLayout ==
  (traceData # <<>> /\ OneInstant)
    => \A id \in DOMAIN Layout :
         /\ Layout[id].startPercentage.kind = "finite"
         /\ Layout[id].startPercentage.num = 0
         /\ Layout[id].widthPercentage.kind = "finite"
         /\ Layout[id].widthPercentage.num = 0

\* the instant the rows are laid out from: traceData[0].started_at in
\* SpanRow, spans[0].started_at in getMaxDuration(traceData)
WindowStart == traceData[1].started_at

\* C22: the window start of the layout is the minimum started_at over the
\* roots of the forest, in whatever order the roots stand.
C22_WindowStartIsEarliestRoot ==
  traceData # <<>> =>
    /\ \A k \in 1..Len(traceData) : WindowStart <= traceData[k].started_at
    /\ \E k \in 1..Len(traceData) : WindowStart = traceData[k].started_at

\* C23: the window duration of the layout is the maximum ended_at over all
\* spans of the forest, descendants at every depth included, minus the
\* window start.
C23_WindowDurationCoversDescendants ==
  traceData # <<>> =>
    /\ \A n \in Range(Preorder(traceData)) :
         getMaxDuration(traceData) >= n.ended_at - WindowStart
    /\ \E n \in Range(Preorder(traceData)) :
         getMaxDuration(traceData) = n.ended_at - WindowStart

----------------------------------------------------------------------------
(* Properties of the order of the build (SpecTree, SpecTime) *)

\* the parent-to-child links of a forest, as pairs of ids
Links(nodes) ==
  UNION { { <<n.id, n.children[k].id>> : k \in 1..Len(n.children) } :
            n \in Range(Preorder(nodes)) }

\* the sequence spans rearranged by the permutation f of its indices
Permute(spans, f) == [i \in 1..Len(spans) |-> spans[f[i]]]

\* index of the first span of the file that carries id
FirstOccurrence(id) ==
  CHOOSE i \in 1..Len(file) :
    file[i].id = id /\ \A j \in 1..(i - 1) : file[j].id # id

\* C16: the build links the same pairs of ids for every permutation of the
\* input; a child that comes before its parent in the sequence is placed
\* under that parent.
C16_LinksIndependentOfOrder ==
  (Built /\ lastOp = "upload") =>
    /\ Len(file) <= MaxPermSpans
         => \A f \in Permutations(1..Len(file)) :
              Links(BuildHierarchy(Permute(file, f))) = Links(traceData)
    /\ \A i, j \in 1..Len(file) :
         (i < j /\ file[i].parent_id = file[j].id
            /\ file[j].id \in ForestIds)
           => <<file[j].id, file[i].id>> \in Links(traceData)

\* C16 witness: a forest in which a span hangs under a parent that follows
\* it in the file, while another span hangs under a parent that precedes it
C16_Witness ==
  /\ Built
  /\ lastOp = "upload"
  /\ Len(file) <= MaxPermSpans
  /\ \E i, j \in 1..Len(file) :
       /\ i < j
       /\ file[i].parent_id = file[j].id
       /\ <<file[j].id, file[i].id>> \in Links(traceData)
  /\ \E i, j \in 1..Len(file) :
       /\ j < i
       /\ <<file[j].id, file[i].id>> \in Links(traceData)

\* C17: the roots of the forest stand in the order of their first
\* occurrence in the input, and every span without parent_id is among them.
C17_RootsInFirstOccurrenceOrder ==
  Built =>
    /\ \A k, l \in 1..Len(traceData) :
         k < l => FirstOccurrence(traceData[k].id)
                    < FirstOccurrence(traceData[l].id)
    /\ \A i \in 1..Len(file) :
         file[i].parent_id = NoParent
           => \E k \in 1..Len(traceData) : traceData[k].id = file[i].id

\* C17 witness: a forest with three roots that other spans separate in the
\* file
C17_Witness ==
  /\ Built
  /\ Len(traceData) >= 3
  /\ \E k \in 1..(Len(traceData) - 1) :
       FirstOccurrence(traceData[k + 1].id)
         > FirstOccurrence(traceData[k].id) + 1

\* C18: the children of every node stand in the order of their first
\* occurrence in the input, whatever their started_at.
C18_ChildrenInFirstOccurrenceOrder ==
  Built =>
    \A n \in Range(Preorder(traceData)) :
      \A k, l \in 1..Len(n.children) :
        k < l => FirstOccurrence(n.children[k].id)
                   < FirstOccurrence(n.children[l].id)

\* C18 witness: a node whose first child started after its second child
C18_Witness ==
  /\ Built
  /\ \E n \in Range(Preorder(traceData)) :
       /\ Len(n.children) >= 2
       /\ n.children[1].started_at > n.children[2].started_at

----------------------------------------------------------------------------
(* Properties of the initial expansion (Spec, SpecTime) *)

\* C19: after a non-polling load or a file upload with input S the
\* expansion set is exactly the set of the ids of S, so that every node of
\* the forest is expanded, whatever the expansion set was before.
C19_LoadExpandsExactlyAllSpans ==
  lastOp \in {"load", "upload"} =>
    /\ expandedSpans = snapIds
    /\ ForestIds \subseteq expandedSpans

\* C19 witness: a non-polling load has answered while some ids were in the
\* expansion set and a node of the new snapshot was collapsed
C19_Witness ==
  /\ lastOp = "load"
  /\ prevExpanded # {}
  /\ snapIds \ prevExpanded # {}
  /\ Len(traceData) < Cardinality(snapIds)

----------------------------------------------------------------------------
(* Properties of the object graph of the build (SpecTree) *)

\* the ids of the children of the objects ids of spanMap
ChildIds(spanMap, ids) ==
  UNION { Range(spanMap[id].children) : id \in ids }

\* the ids of the objects that the children references reach from ids
RECURSIVE ReachableFrom(_, _)
ReachableFrom(spanMap, ids) ==
  LET next == ids \cup ChildIds(spanMap, ids)
  IN  IF next = ids THEN ids ELSE ReachableFrom(spanMap, next)

\* C20: for an input with distinct ids, parent_id cycles and self-parents
\* included, the structure that the children references reach from the
\* roots holds no object below itself and no object twice, so that the walk
\* of getAncestorSpans visits every object at most once and ends.
C20_ReachableStructureIsAcyclic ==
  Built =>
    LET linked == LinkSpans(file, 1, InitSpanMap(file), <<>>)
        reach == ReachableFrom(linked.spanMap, Range(linked.rootSpans))
    IN  /\ \A id \in reach :
             id \notin ReachableFrom(linked.spanMap,
                                     Range(linked.spanMap[id].children))
        /\ ForestIds = reach
        /\ Len(Preorder(traceData)) = Cardinality(reach)
        /\ Len(History) <= Cardinality(reach)

\* C20 witness: the file holds two spans that name each other as parent,
\* next to a tree that is shown and in which a span is selected
C20_Witness ==
  /\ Built
  /\ \E i, j \in 1..Len(file) :
       /\ i # j
       /\ file[i].parent_id = file[j].id
       /\ file[j].parent_id = file[i].id
  /\ Len(traceData) > 0
  /\ TargetPresent
  /\ Len(History) > 0

----------------------------------------------------------------------------
(* Properties of the line import of App.tsx (SpecImport) *)

\* the places <<line, record>> of the records tagged trace.span on the
\* lines that are JSON
SpanPlaces ==
  { pl \in (1..Len(text)) \X (1..MaxItems) :
      /\ text[pl[1]].json
      /\ pl[2] <= Len(text[pl[1]].data)
      /\ text[pl[1]].data[pl[2]].object = "trace.span" }

\* C21: a line that fails to parse does not end the import: the spans the
\* forest is built from are the records tagged trace.span of every line that
\* parses, each once, in line order.
C21_BadLineIsSkipped ==
  lastOp = "import" =>
    /\ Len(parsedSpans) = Cardinality(SpanPlaces)
    /\ \A pl \in SpanPlaces :
         \E i \in 1..Len(parsedSpans) :
           parsedSpans[i] = text[pl[1]].data[pl[2]]
    /\ \A i, j \in 1..Len(parsedSpans) :
         i < j => parsedSpans[i].id < parsedSpans[j].id
    /\ traceData = BuildHierarchy(parsedSpans)

\* C21 witness: a line that is no JSON stands between two lines that hold
\* spans, and the spans of both were imported
C21_Witness ==
  /\ lastOp = "import"
  /\ \E a, b, c \in 1..Len(text) :
       /\ a < b /\ b < c
       /\ ~text[b].json
       /\ \E pl \in SpanPlaces : pl[1] = a
       /\ \E pl \in SpanPlaces : pl[1] = c
  /\ Len(parsedSpans) >= 2

----------------------------------------------------------------------------
(* Properties of formatDuration (SpecFormat) *)

\* the natural number that a sequence of digit characters writes
RECURSIVE ValueOf(_)
ValueOf(chars) ==
  IF Len(chars) = 0 THEN 0
  ELSE 10 * ValueOf(SubSeq(chars, 1, Len(chars) - 1))
         + (CHOOSE k \in 0..9 : DigitChar(k) = chars[Len(chars)])

IsDigits(chars) ==
  /\ Len(chars) > 0
  /\ \A i \in 1..Len(chars) : \E k \in 0..9 : chars[i] = DigitChar(k)
  /\ (Len(chars) > 1 => chars[1] # "0")

\* C24: formatDuration(d) is '0 ms' for d = 0, the digits of d and ' ms'
\* for 0 < d < 1000, and for d >= 1000 the seconds with exactly two
\* decimals and ' s', the hundredths being d / 10 rounded to a neighbour;
\* 999 gives '999 ms', 1000 gives '1.00 s', 1500 gives '1.50 s'.
C24_FormatDuration ==
  lastOp = "format" =>
    LET len == Len(formatted)
    IN  /\ duration = 0 => formatted = <<"0", " ", "m", "s">>
        /\ (0 < duration /\ duration < 1000) =>
             /\ SubSeq(formatted, len - 2, len) = <<" ", "m", "s">>
             /\ IsDigits(SubSeq(formatted, 1, len - 3))
             /\ ValueOf(SubSeq(formatted, 1, len - 3)) = duration
        /\ duration >= 1000 =>
             /\ SubSeq(formatted, len - 1, len) = <<" ", "s">>
             /\ formatted[len - 4] = "."
             /\ IsDigits(SubSeq(formatted, 1, len - 5))
             /\ \A i \in {len - 3, len - 2} :
                  \E k \in 0..9 : formatted[i] = DigitChar(k)
             /\ LET hundredths ==
                      100 * ValueOf(SubSeq(formatted, 1, len - 5))
                        + ValueOf(SubSeq(formatted, len - 3, len - 2))
                IN  /\ 10 * hundredths - duration <= 5
                    /\ duration - 10 * hundredths <= 5
        /\ duration = 999 => formatted = <<"9", "9", "9", " ", "m", "s">>
        /\ duration = 1000 => formatted = <<"1", ".", "0", "0", " ", "s">>
        /\ duration = 1500 => formatted = <<"1", ".", "5", "0", " ", "s">>

\* C24 witness: a duration of at least one second that lies halfway between
\* two hundredths has been formatted with two decimals, the lower hundredth
C24_Witness ==
  /\ lastOp = "format"
  /\ duration >= 1000
  /\ duration % 10 = 5
  /\ Len(formatted) = 6
  /\ formatted[2] = "."
  /\ formatted[4] = DigitChar((duration \div 10) % 10)

----------------------------------------------------------------------------
(* Properties of the new-agent flag of the History section (SpecAgents) *)

\* C25: an entry of the history is flagged as a new agent if and only if it
\* is an agent span, the entry before it exists and is a handoff span, and
\* no agent entry before it has the same name; so at most one entry of an
\* agent name is flagged.
C25_NewAgentFlag ==
  /\ \A i \in 1..Len(History) :
       isNewAgent(History, i) <=>
         /\ History[i].span_data.type = "agent"
         /\ i > 1
         /\ History[i - 1].span_data.type = "handoff"
         /\ \A j \in 1..(i - 1) :
              History[j].span_data.type = "agent"
                => NameOrType(History[j]) # NameOrType(History[i])
  /\ \A i, j \in 1..Len(History) :
       (i # j /\ isNewAgent(History, i) /\ isNewAgent(History, j))
         => NameOrType(History[i]) # NameOrType(History[j])

\* C25 witness: in the history an agent is flagged after a handoff, and the
\* same agent comes after a later handoff and is not flagged
C25_Witness ==
  /\ lastOp = "select"
  /\ \E i, j \in 1..Len(History) :
       /\ i < j
       /\ isNewAgent(History, i)
       /\ History[j].span_data.type = "agent"
       /\ History[j - 1].span_data.type = "handoff"
       /\ NameOrType(History[j]) = NameOrType(History[i])
       /\ ~isNewAgent(History, j)

----------------------------------------------------------------------------
(* Properties of the order of the responses (Spec, SpecNav) *)

\* C26: the forest never goes back to an older snapshot: the response of a
\* fetch is not applied once the response of a fetch issued after it has
\* been applied.
C26_ResponsesAppliedInIssueOrder ==
  lastOp \in {"load", "pollMerge"} => lastReq.n = appliedN

\* C27: after traceId has changed, the response to a fetch issued for the
\* former traceId is never applied: the forest and the expansion set are
\* replaced by data fetched for the current traceId only.
C27_OnlyCurrentTraceIsApplied ==
  lastOp \in {"load", "pollMerge"} => lastReq.traceId = traceId

\* C28: once isPolling is false it is never true again, whatever responses,
\* errors and traceId changes follow; a fetch with isPollingUpdate = true is
\* issued by a timer tick only, and that tick sees isPolling = true.
C28_PollingNeverRestarts ==
  /\ [][~isPolling => ~isPolling']_vars
  /\ [][\A r \in inflight' :
          (r.isPollingUpdate /\ \A q \in inflight : q.n # r.n)
            => (lastOp' = "tick" /\ timer.isPolling /\ isPolling)]_vars

\* C28 witness: polling has stopped, the location has changed to another
\* trace, and the load of that trace has answered
C28_Witness ==
  /\ ~isPolling
  /\ traceId = OtherTrace
  /\ lastOp = "load"
  /\ lastReq.traceId = OtherTrace
  /\ lastReq.n > completedAt
  /\ completedAt # 0

----------------------------------------------------------------------------
(* Properties of the shape of the forest (SpecTree) *)

\* C29: in the forest built from an input with distinct ids every root has
\* no parent_id, every child names the node that holds it as its parent,
\* and no node is a root and a child, or a child of two nodes.
C29_ForestIsWellFormed ==
  Built =>
    /\ \A k \in 1..Len(traceData) : traceData[k].parent_id = NoParent
    /\ \A n \in Range(Preorder(traceData)) :
         \A k \in 1..Len(n.children) : n.children[k].parent_id = n.id
    /\ \A a, b \in 1..Len(Preorder(traceData)) :
         a # b => Preorder(traceData)[a].id # Preorder(traceData)[b].id

\* C29 witness: a forest of three levels, built from a file in which a
\* child comes before its parent and a span is an orphan
C29_Witness ==
  /\ Built
  /\ \E k \in 1..Len(traceData) :
       \E c \in 1..Len(traceData[k].children) :
         Len(traceData[k].children[c].children) > 0
  /\ \E i, j \in 1..Len(file) :
       i < j /\ file[i].parent_id = file[j].id /\ file[i].id \in ForestIds
  /\ \E i \in 1..Len(file) : IsOrphan(i)

----------------------------------------------------------------------------
(* Properties of toggleSpan (SpecRows) *)

\* the ids toggleSpan can be called with, and one that no span carries
ToggleIds == SpanIds(file) \cup {Len(file) + 1}

\* C30: toggleSpan(id) flips the membership of exactly id in the expansion
\* set and leaves the membership of every other id, the forest and the
\* selected span unchanged; applied twice in a row it restores the
\* expansion set.
C30_ToggleFlipsExactlyOneId ==
  /\ [](\A id \in ToggleIds :
          LET next == toggleSpan(expandedSpans, id)
          IN  /\ (id \in next) <=> (id \notin expandedSpans)
              /\ \A other \in ToggleIds \ {id} :
                   (other \in next) <=> (other \in expandedSpans)
              /\ next \subseteq ToggleIds \cup expandedSpans
              /\ toggleSpan(next, id) = expandedSpans)
  /\ [][lastOp' = "toggle" =>
          /\ traceData' = traceData
          /\ selectedSpan' = selectedSpan
          /\ \E id \in ToggleButtons :
               expandedSpans' = toggleSpan(expandedSpans, id)]_vars

\* C30 witness: with a span selected, a toggle has brought the expansion
\* set back to the one the load produced, so that a row was collapsed by
\* one toggle and expanded again by another
C30_Witness ==
  /\ lastOp = "toggle"
  /\ selectedSpan # NoSpan
  /\ snapIds # {}
  /\ expandedSpans = snapIds
  /\ prevExpanded # expandedSpans

====
